---- MODULE Spec2Model ----
(***************************************************************************)
(* Model of the hybrid search layer of backend/search_service.py:          *)
(* QueryParser.parse, SearchService.hybrid_search,                         *)
(* SearchService.process_natural_language_query,                           *)
(* SearchService._generate_suggestions / _rank_suggestions and             *)
(* SearchService._combine_results.                                         *)
(*                                                                         *)
(* Text is a sequence of symbols.  A symbol stands for a run of characters *)
(* that the code never splits: a word, a blank, a double quote, a          *)
(* parenthesis.  The tokenizer of QueryParser.parse only distinguishes the *)
(* double quote, white space and everything else, so this keeps what it    *)
(* does.                                                                   *)
(***************************************************************************)
EXTENDS Integers, Sequences, FiniteSets, TLC

\* ------------------------------------------------------------------ bounds
\* Longest hit list a backend returns in the fusion specification.
MaxHits == 3
\* Largest limit a caller passes to hybrid_search.
MaxLimit == 2
\* Number of hybrid_search calls made one after the other.
MaxCalls == 2

\* ------------------------------------------------------------ text helpers
SP == " "
QUOTE == "\""

\* str.upper() of one symbol.
Upper(sym) ==
    CASE sym = "a" -> "A"
      [] sym = "b" -> "B"
      [] sym = "and" -> "AND"
      [] sym = "or"  -> "OR"
      [] sym = "not" -> "NOT"
      [] sym = "band" -> "BAND"
      [] sym = "find" -> "FIND"
      [] sym = "me" -> "ME"
      [] sym = "only" -> "ONLY"
      [] OTHER -> sym

\* str.lower() of one symbol.
Lower(sym) ==
    CASE sym = "A" -> "a"
      [] sym = "B" -> "b"
      [] sym = "AND" -> "and"
      [] sym = "OR"  -> "or"
      [] sym = "NOT" -> "not"
      [] sym = "BAND" -> "band"
      [] sym = "FIND" -> "find"
      [] sym = "ME" -> "me"
      [] sym = "ONLY" -> "only"
      [] OTHER -> sym

\* The characters of one symbol, in lower case.
LowerChars(sym) ==
    LET low == Lower(sym) IN
    CASE low = "and" -> <<"a", "n", "d">>
      [] low = "or" -> <<"o", "r">>
      [] low = "not" -> <<"n", "o", "t">>
      [] low = "band" -> <<"b", "a", "n", "d">>
      [] low = "find" -> <<"f", "i", "n", "d">>
      [] low = "me" -> <<"m", "e">>
      [] low = "only" -> <<"o", "n", "l", "y">>
      [] OTHER -> <<low>>

\* A generated text of more than 500 characters, kept as one symbol.
TooLong == <<"<501 chars>">>

\* Number of characters of one symbol.
CharLen(sym) == IF sym = TooLong[1] THEN 501 ELSE Len(LowerChars(sym))

RECURSIVE TextLen(_)
\* len(text) in characters.
TextLen(text) ==
    IF text = <<>> THEN 0 ELSE CharLen(Head(text)) + TextLen(Tail(text))

\* text.lower()
LowerText(text) == [k \in 1..Len(text) |-> Lower(text[k])]

RECURSIVE LowerCharsOf(_)
\* The characters of text.lower().
LowerCharsOf(text) ==
    IF text = <<>> THEN <<>> ELSE LowerChars(Head(text)) \o LowerCharsOf(Tail(text))

\* text.lower().startswith(prefix.lower())
StartsWithLower(text, prefix) ==
    LET t == LowerCharsOf(text)
        q == LowerCharsOf(prefix) IN
    Len(q) <= Len(t) /\ SubSeq(t, 1, Len(q)) = q

RECURSIVE Join(_)
\* ' '.join(parts)
Join(parts) ==
    IF parts = <<>> THEN <<>>
    ELSE IF Len(parts) = 1 THEN parts[1]
    ELSE parts[1] \o <<SP>> \o Join(Tail(parts))

\* ------------------------------------------------------------- QueryParser
\* Keys of QueryParser.operator_map.
operator_map == {"AND", "OR", "NOT"}

\* `op in query.upper()` for some op of operator_map: a substring test, so
\* a word such as "band" counts.
HasOperatorSubstring(query) ==
    \E k \in 1..Len(query) : Upper(query[k]) \in {"AND", "OR", "NOT", "BAND"}

RECURSIVE TokenizeFrom(_, _, _, _)
\* The character loop of parse: tokens, current_token, in_quotes.
TokenizeFrom(rest, tokens, current_token, in_quotes) ==
    IF rest = <<>>
    THEN IF current_token # <<>> THEN Append(tokens, current_token) ELSE tokens
    ELSE LET char == Head(rest) IN
         IF char = QUOTE
         THEN IF in_quotes
              THEN TokenizeFrom(Tail(rest), Append(tokens, current_token), <<>>, FALSE)
              ELSE TokenizeFrom(Tail(rest), tokens, current_token, TRUE)
         ELSE IF char = SP /\ ~in_quotes
         THEN IF current_token # <<>>
              THEN TokenizeFrom(Tail(rest), Append(tokens, current_token), <<>>, in_quotes)
              ELSE TokenizeFrom(Tail(rest), tokens, current_token, in_quotes)
         ELSE TokenizeFrom(Tail(rest), tokens, Append(current_token, char), in_quotes)

Tokenize(query) == TokenizeFrom(query, <<>>, <<>>, FALSE)

\* token.upper() in self.operator_map
IsOperator(token) == Len(token) = 1 /\ Upper(token[1]) \in operator_map

\* Result of a parse that raised ValueError.
ParseError == [ok |-> FALSE, text |-> <<>>, is_advanced |-> FALSE]

RECURSIVE ProcessTokens(_, _, _)
\* The while loop of parse; i is the code's 0-based index, tokens[i] of the
\* code is tokens[i + 1] here.  tokens[i+1] past the end raises IndexError;
\* tokens[i-1] with i = 0 is tokens[-1], the last token.
ProcessTokens(tokens, i, parsed) ==
    IF i >= Len(tokens)
    THEN [ok |-> TRUE, text |-> Join(parsed), is_advanced |-> TRUE]
    ELSE LET token == tokens[i + 1]
             name == Upper(token[1]) IN
         IF IsOperator(token)
         THEN IF i + 1 >= Len(tokens)
              THEN ParseError
              ELSE IF name = "NOT"
              THEN ProcessTokens(tokens, i + 2,
                       Append(parsed, <<"NOT", SP>> \o tokens[i + 2]))
              ELSE LET left == IF parsed # <<>> THEN parsed[Len(parsed)]
                               ELSE IF i = 0 THEN tokens[Len(tokens)]
                               ELSE tokens[i]
                       kept == IF parsed # <<>> THEN SubSeq(parsed, 1, Len(parsed) - 1)
                               ELSE parsed
                       right == tokens[i + 2] IN
                   ProcessTokens(tokens, i + 2,
                       Append(kept, <<"(">> \o left \o <<SP, name, SP>> \o right \o <<")">>))
         ELSE ProcessTokens(tokens, i + 1, Append(parsed, token))

\* QueryParser.parse(query): (parsed_query, is_advanced) or ValueError.
Parse(query) ==
    IF ~HasOperatorSubstring(query)
    THEN [ok |-> TRUE, text |-> query, is_advanced |-> FALSE]
    ELSE ProcessTokens(Tokenize(query), 0, <<>>)

\* ------------------------------------------ SearchService._combine_results
Max(x, y) == IF x >= y THEN x ELSE y
Min(x, y) == IF x <= y THEN x ELSE y

\* Document ids known to the two indexes.
Docs == {"A", "B", "C"}

\* A hit of the Meilisearch index: the document itself, result['id'].
MeiliHit(d) == [id |-> d, payload |-> "meili"]
\* A hit of the Qdrant collection: result.payload, with payload['id'].
QdrantHit(d) == [id |-> d, payload |-> "qdrant"]

\* The scores are sums of 1 - idx/len(list).  They are kept exact as
\* integers over the common denominator ScoreScale; for lists of up to four
\* hits the floating point sums of the code compare exactly as these do.
ScoreScale(keyword_results, vector_results) ==
    Max(Len(keyword_results), 1) * Max(Len(vector_results), 1)

\* Contribution with a 1-based rank.
ContributionOneBased(idx, n, scale) == scale - ((idx + 1) * scale) \div n

\* (1 - idx/n) * scale, idx the 0-based enumerate index; n divides scale.
Contribution(idx, n, scale) == scale - (idx * scale) \div n

RECURSIVE ListScore(_, _, _, _)
\* What one `for idx, result in enumerate(results)` loop adds to scores[d]:
\* every occurrence of d in the first k results adds its contribution.
ListScore(results, d, k, scale) ==
    IF k = 0 THEN 0
    ELSE ListScore(results, d, k - 1, scale)
         + (IF results[k].id = d
            THEN Contribution(k - 1, Len(results), scale) ELSE 0)

\* scores.get(d, 0) after both loops, times ScoreScale.
Scores(keyword_results, vector_results, d) ==
    LET scale == ScoreScale(keyword_results, vector_results) IN
    ListScore(keyword_results, d, Len(keyword_results), scale)
    + ListScore(vector_results, d, Len(vector_results), scale)

\* The dict scores after both loops: its keys are the ids of the hits.
ScoresDict(keyword_results, vector_results) ==
    [d \in {keyword_results[k].id : k \in 1..Len(keyword_results)}
            \cup {vector_results[k].id : k \in 1..Len(vector_results)} |->
        Scores(keyword_results, vector_results, d)]

\* Position of the key id in an insertion-ordered dict, 0 if absent.
DictIndex(dict, id) ==
    IF \E k \in 1..Len(dict) : dict[k].id = id
    THEN CHOOSE k \in 1..Len(dict) : dict[k].id = id
    ELSE 0

RECURSIVE KeywordDocs(_, _)
\* {doc['id']: doc for doc in keyword_results}: a key keeps the place of
\* its first insertion and the value of its last.
KeywordDocs(keyword_results, k) ==
    IF k = 0 THEN <<>>
    ELSE LET dict == KeywordDocs(keyword_results, k - 1)
             doc == keyword_results[k]
             at == DictIndex(dict, doc.id) IN
         IF at = 0 THEN Append(dict, doc) ELSE [dict EXCEPT ![at] = doc]

RECURSIVE AllDocsFrom(_, _, _)
\* The loop adding the vector payloads whose id is not yet in all_docs.
AllDocsFrom(dict, vector_results, k) ==
    IF k = 0 THEN dict
    ELSE LET sofar == AllDocsFrom(dict, vector_results, k - 1)
             doc == vector_results[k] IN
         IF DictIndex(sofar, doc.id) = 0 THEN Append(sofar, doc) ELSE sofar

RECURSIVE VectorWinsFrom(_, _, _)
\* The loop over the vector payloads, a payload replacing the document
\* already stored under its id.
VectorWinsFrom(dict, vector_results, k) ==
    IF k = 0 THEN dict
    ELSE LET sofar == VectorWinsFrom(dict, vector_results, k - 1)
             doc == vector_results[k]
             at == DictIndex(sofar, doc.id) IN
         IF at = 0 THEN Append(sofar, doc) ELSE [sofar EXCEPT ![at] = doc]

\* AllDocs with the vector payload winning.
AllDocsVectorWins(keyword_results, vector_results) ==
    VectorWinsFrom(KeywordDocs(keyword_results, Len(keyword_results)),
                   vector_results, Len(vector_results))

\* all_docs.values() in insertion order.
AllDocs(keyword_results, vector_results) ==
    AllDocsFrom(KeywordDocs(keyword_results, Len(keyword_results)),
                vector_results, Len(vector_results))

\* InsertByScore of a sort that is not stable: doc goes in front of the
\* elements of equal score.
InsertByScoreUnstable(sorted, doc, keyword_results, vector_results) ==
    LET s == Scores(keyword_results, vector_results, doc.id)
        before == {k \in 1..Len(sorted) :
                     Scores(keyword_results, vector_results, sorted[k].id) > s}
        n == Cardinality(before) IN
    SubSeq(sorted, 1, n) \o <<doc>> \o SubSeq(sorted, n + 1, Len(sorted))

\* Inserts doc into a list sorted by descending score, behind every element
\* whose score is not smaller (the sort is stable).
InsertByScore(sorted, doc, keyword_results, vector_results) ==
    LET s == Scores(keyword_results, vector_results, doc.id)
        before == {k \in 1..Len(sorted) :
                     Scores(keyword_results, vector_results, sorted[k].id) >= s}
        n == Cardinality(before) IN
    SubSeq(sorted, 1, n) \o <<doc>> \o SubSeq(sorted, n + 1, Len(sorted))

RECURSIVE SortedByScore(_, _, _, _)
\* sorted(all_docs.values(), key=scores.get, reverse=True) of the first k.
SortedByScore(docs, k, keyword_results, vector_results) ==
    IF k = 0 THEN <<>>
    ELSE InsertByScore(SortedByScore(docs, k - 1, keyword_results, vector_results),
                       docs[k], keyword_results, vector_results)

\* _combine_results sorting the two lists one after the other, a document
\* of both lists kept twice.
CombineResultsNoDedup(keyword_results, vector_results) ==
    SortedByScore(keyword_results \o vector_results,
                  Len(keyword_results) + Len(vector_results),
                  keyword_results, vector_results)

\* SearchService._combine_results(keyword_results, vector_results)
CombineResults(keyword_results, vector_results) ==
    LET all_docs == AllDocs(keyword_results, vector_results) IN
    SortedByScore(all_docs, Len(all_docs), keyword_results, vector_results)

\* combined[:limit] with the slice forgotten.
TruncateNothing(combined, limit) == combined

\* combined[:limit]
Truncate(combined, limit) ==
    IF limit >= 0 THEN SubSeq(combined, 1, Min(limit, Len(combined)))
    ELSE SubSeq(combined, 1, Max(Len(combined) + limit, 0))

\* ------------------------- SearchService.process_natural_language_query
\* text.strip()
RECURSIVE Strip(_)
Strip(text) ==
    IF text = <<>> THEN text
    ELSE IF Head(text) = SP THEN Strip(Tail(text))
    ELSE IF text[Len(text)] = SP THEN Strip(SubSeq(text, 1, Len(text) - 1))
    ELSE text

RECURSIVE WordCount(_, _)
\* len(text.split()): the runs of non-blank symbols; in_word tells whether
\* the symbol before was part of a word.
WordCount(text, in_word) ==
    IF text = <<>> THEN 0
    ELSE IF Head(text) = SP THEN WordCount(Tail(text), FALSE)
    ELSE (IF in_word THEN 0 ELSE 1) + WordCount(Tail(text), TRUE)

\* The pattern loop.  Of the five patterns only
\* ^(find|show|get|search for) me? (.*) can match a text over the symbols
\* of this model; it keeps group 2, stripped.
PatternPass(query) ==
    IF /\ Len(query) >= 4
       /\ Lower(query[1]) = "find" /\ query[2] = SP
       /\ Lower(query[3]) = "me" /\ query[4] = SP
    THEN Strip(SubSeq(query, 5, Len(query)))
    ELSE query

\* Intent classification over the text after the pattern pass.
Intent(query) ==
    IF \E k \in 1..Len(query) : Lower(query[k]) \in {"compare", "difference", "similar"}
    THEN "comparison"
    ELSE IF \E k \in 1..Len(query) : Lower(query[k]) \in {"filter", "only", "just"}
    THEN "filter"
    ELSE IF \E k \in 1..Len(query) : Lower(query[k]) \in {"what", "how", "why"}
    THEN "informational"
    ELSE "general"

\* The text generation model raised instead of answering.
ModelRaises == <<"<raise>">>
\* len(query) > 500
IsTooLong(text) == TextLen(text) > 500

\* What self.nlp may answer in this model.
ModelOutputs == {<<>>, <<"b">>, <<"b", SP, "OR">>, TooLong}

\* len(query.split()) > 3: the model is asked.
ModelInvoked(query) == WordCount(query, FALSE) > 3

\* ModelPass going back to the text of the pattern pass when the answer of
\* the model is no good.
ModelPassKeepsPreModel(query, original_query, generated) ==
    IF ModelInvoked(query)
    THEN IF generated = ModelRaises THEN query
         ELSE IF generated = <<>> \/ IsTooLong(generated) THEN query
         ELSE generated
    ELSE query

\* The model pass: taken for more than 3 words; generated is the answer of
\* self.nlp, or ModelRaises.
ModelPass(query, original_query, generated) ==
    IF ModelInvoked(query)
    THEN IF generated = ModelRaises THEN original_query
         ELSE IF generated = <<>> \/ IsTooLong(generated) THEN original_query
         ELSE generated
    ELSE query

\* process_natural_language_query(query), generated as in ModelPass.
ProcessNaturalLanguageQuery(query, generated) ==
    LET after_patterns == PatternPass(query)
        intent == Intent(after_patterns)
        after_model == ModelPass(after_patterns, query, generated) IN
    IF intent = "comparison" THEN <<"(">> \o after_model \o <<")">>
    ELSE IF intent = "filter" THEN <<"+">> \o after_model
    ELSE after_model

\* ------------------------------------------------- suggestions and history
\* user_id = None, kept as an integer no row of users has as its id.
NoUser == -1
\* `if user_id:` and `user_id or 'global'`: None and 0 are false.
Truthy(user_id) == user_id # NoUser /\ user_id # 0

\* Attributes of the SearchHistory model: its columns, those of
\* TimestampMixin and the relationship.
SearchHistoryColumns ==
    {"id", "query", "search_type", "filters", "results_count",
     "response_time_ms", "user_id", "user", "created_at", "updated_at"}

\* Keyword arguments hybrid_search gives to SearchHistory(...).
HistoryKwargs == {"user_id", "query", "result_count", "timestamp"}

\* The declarative constructor raises TypeError for a keyword that is not
\* an attribute of the model.
ConstructorRaises(kwargs) == ~(kwargs \subseteq SearchHistoryColumns)

\* Suggestions returned per call: [:8].
SuggestionLimit == 8
\* History rows read per call: .limit(100).
RecentLimit == 100

\* TooShort with only the empty query turned away.
TooShortEmptyOnly(query) == TextLen(query) < 1

\* len(query) < 2
TooShort(query) == TextLen(query) < 2

\* CacheKey without the user part.
CacheKeyNoUser(query, user_id) == <<"global", ":">> \o LowerText(query)

\* CacheKey with the query as it was typed.
CacheKeyCaseSensitive(query, user_id) ==
    <<IF Truthy(user_id) THEN ToString(user_id) ELSE "global", ":">> \o query

\* f"{user_id or 'global'}:{query.lower()}": one string, the user part, a
\* colon and the query in lower case.
CacheKey(query, user_id) ==
    <<IF Truthy(user_id) THEN ToString(user_id) ELSE "global", ":">> \o LowerText(query)

\* cache_key in self.suggestion_cache
CacheHit(cache, key) == key \in DOMAIN cache

\* CacheStore of a cache that keeps its latest entry only.
CacheStoreEvicting(cache, key, suggestions) == [k \in {key} |-> suggestions]

\* self.suggestion_cache[cache_key] = suggestions
CacheStore(cache, key, suggestions) ==
    [k \in DOMAIN cache \cup {key} |-> IF k = key THEN suggestions ELSE cache[k]]

\* The exception raised inside the try block of _generate_suggestions, ""
\* if none: the Meilisearch prefix search is made for every caller, the
\* history read only under `if user_id:`.
SuggestFailure(user_id, prefix_raised, read_raised) ==
    IF prefix_raised THEN "prefix"
    ELSE IF Truthy(user_id) /\ read_raised THEN "history"
    ELSE ""

\* TryGenerate keeping an empty entry for a key whose generation failed.
TryGenerateCachesFailure(cache, key, failure, ranked) ==
    IF failure # ""
    THEN [suggestions |-> <<>>, cache |-> CacheStore(cache, key, <<>>)]
    ELSE [suggestions |-> Truncate(ranked, SuggestionLimit),
          cache |-> CacheStore(cache, key, ranked)]

\* The try block of _generate_suggestions after a cache miss: what it
\* returns and the cache it leaves.  ranked is the answer of
\* _rank_suggestions; `except Exception` returns [] before the cache is
\* written.
TryGenerate(cache, key, failure, ranked) ==
    IF failure # ""
    THEN [suggestions |-> <<>>, cache |-> cache]
    ELSE [suggestions |-> Truncate(ranked, SuggestionLimit),
          cache |-> CacheStore(cache, key, ranked)]

\* self.popular_terms.get(term, 0)
PopularCount(popular, term) == IF term \in DOMAIN popular THEN popular[term] ELSE 0

\* SuggestionScore boosting the longer suggestions.
SuggestionScoreLongerFirst(suggestion, query, popular) ==
    (IF StartsWithLower(suggestion, query) THEN 200 ELSE 0)
    + PopularCount(popular, LowerText(suggestion)) * 10
    + TextLen(suggestion) * 5

\* The score of _rank_suggestions, times 100.
SuggestionScore(suggestion, query, popular) ==
    (IF StartsWithLower(suggestion, query) THEN 200 ELSE 0)
    + PopularCount(popular, LowerText(suggestion)) * 10
    + Max(0, 10 - TextLen(suggestion)) * 5

\* The set `suggestions` of _rank_suggestions.
Candidates(titles, history_terms, query) ==
    {t \in titles : StartsWithLower(t, query)}
    \cup {history_terms[k] : k \in {j \in 1..Len(history_terms) :
                                      StartsWithLower(history_terms[j], query)}}

\* scored_suggestions: the pairs (score, suggestion) of the candidates.
ScoredSuggestions(cands, query, popular) ==
    {<<SuggestionScore(c, query, popular), c>> : c \in cands}

RECURSIVE SortedOrders(_)
\* The orders [s[1] for s in sorted(scored_suggestions, key=lambda x: -x[0])]
\* may have: a suggestion of the highest score first, then the others in
\* the same way.
SortedOrders(scored) ==
    IF scored = {} THEN {<<>>}
    ELSE LET top == {s \in scored : \A t \in scored : s[1] >= t[1]} IN
         UNION {{<<s[2]>> \o rest : rest \in SortedOrders(scored \ {s})} : s \in top}

\* What _rank_suggestions may return: the candidates by descending score.
\* The candidates are iterated in the order of a Python set and the sort is
\* stable, so candidates of equal score come in any order.
RankSuggestions(titles, history_terms, query, popular) ==
    SortedOrders(ScoredSuggestions(Candidates(titles, history_terms, query),
                                   query, popular))

\* The rows select(SearchHistory.query).filter(user_id == u)
\* .order_by(created_at.desc()).limit(100) returns.
RECURSIVE RecentQueries(_, _)
RecentQueries(rows, u) ==
    IF rows = <<>> THEN <<>>
    ELSE LET older == RecentQueries(SubSeq(rows, 1, Len(rows) - 1), u)
             last == rows[Len(rows)] IN
         IF last.user_id = u
         THEN SubSeq(<<last.query>> \o older, 1, Min(RecentLimit, Len(older) + 1))
         ELSE older

\* ------------------------------------------- SearchService.hybrid_search
VARIABLES
    pc,                \* where the hybrid_search call in progress stands
    calls,             \* hybrid_search calls finished so far
    original_query,    \* the text the caller passed
    limit,
    user_id,
    use_nlp,
    processed_query,   \* what process_natural_language_query returned
    query,             \* the local variable query
    nlp_processed,
    is_advanced,
    meili_status,      \* "none", "ok" or "failed": the Meilisearch search
    qdrant_status,     \* "none", "ok" or "failed": embedding and Qdrant search
    history_status,    \* "none", "skipped", "written" or "failed"
    meili_results,     \* meili_results['hits']
    qdrant_results,    \* the payloads of qdrant_results
    combined,
    scores,            \* the dict scores of _combine_results, times its scale
    history,           \* the rows of the search_history table
    suggestion_cache,  \* self.suggestion_cache
    popular_terms,     \* self.popular_terms
    result,            \* what the call returned or raised
    trace,             \* what the call in progress did so far
    suggest_calls,     \* the _generate_suggestions calls made on their own
    uploads,           \* the upload_files request in progress
    retry              \* the FileService._retry_operation call in progress

vars == <<pc, calls, original_query, limit, user_id, use_nlp, processed_query,
          query, nlp_processed, is_advanced, meili_status, qdrant_status,
          history_status, meili_results, qdrant_results, combined, scores,
          history, suggestion_cache, popular_terms, result, trace,
          suggest_calls, uploads, retry>>

\* upload_files before a request arrives.
NoUploads == [pc |-> "idle", files |-> <<>>, results |-> <<>>]

\* _retry_operation before it is called.
NoRetry ==
    [pc |-> "idle", max_retries |-> 0, initial_delay |-> 0, attempt |-> 0,
     delay |-> 0, invocations |-> <<>>, sleeps |-> <<>>, result |-> ""]

\* The texts callers search for.
RequestTexts ==
    {<<"a", "b">>,
     <<"a", SP, "AND", SP, "b">>,
     <<"a", SP, "AND">>,
     <<"find", SP, "me", SP, "a", "b">>,
     <<"a", SP, "b", SP, "a", SP, "b">>}

\* The ids callers pass: anonymous, or the id of a row of users.
UserIds == {NoUser, 1}

\* Titles of indexed documents.
Titles == {<<"a", "b">>, <<"A", "b", "a">>}

\* The injective hit lists of at most n documents.
HitLists(n) ==
    UNION {{h \in [1..k -> Docs] : \A i, j \in 1..k : i # j => h[i] # h[j]}
           : k \in 0..Min(n, Cardinality(Docs))}

\* meili_results.get('facets', {}) when no facets were asked for.
NoFacets == "{}"

NoResult ==
    [kind |-> "none", error |-> "", hits |-> <<>>, facets |-> NoFacets,
     query_suggestions |-> <<>>, nlp_processed |-> FALSE,
     original_query |-> <<>>]

\* The call left hybrid_search with an exception.
Raised(error) == [NoResult EXCEPT !.kind = "error", !.error = error]

\* Nothing done yet.  steps: the statements of hybrid_search run so far;
\* raw: the text given to the parser.parse call that returned;
\* meili_query, meili_limit: arguments of the Meilisearch search;
\* embed_text: argument of embedding_model.encode; qdrant_limit: limit of
\* the Qdrant search; model_invoked, generated, after_patterns, after_model:
\* the locals of process_natural_language_query; suggest_outcome: how
\* _generate_suggestions came to its answer ("short", "hit", "failed" or
\* "ranked"); suggest_failure: the exception raised inside it; before: the
\* history table, the cache and the popularity counters as the call found
\* them.
NoTrace ==
    [steps |-> <<>>, raw |-> <<>>, meili_query |-> <<>>, meili_limit |-> 0,
     embed_text |-> <<>>, qdrant_limit |-> 0, model_invoked |-> FALSE,
     generated |-> <<>>, after_patterns |-> <<>>, after_model |-> <<>>,
     suggest_outcome |-> "", suggest_failure |-> "",
     before |-> [history |-> <<>>, suggestion_cache |-> <<>>, popular_terms |-> <<>>]]

\* The state a call starts in and is put back to when it is over.
CallReset ==
    /\ original_query' = <<>>
    /\ limit' = 0
    /\ user_id' = NoUser
    /\ use_nlp' = FALSE
    /\ processed_query' = <<>>
    /\ query' = <<>>
    /\ nlp_processed' = FALSE
    /\ is_advanced' = FALSE
    /\ meili_status' = "none"
    /\ qdrant_status' = "none"
    /\ history_status' = "none"
    /\ meili_results' = <<>>
    /\ qdrant_results' = <<>>
    /\ combined' = <<>>
    /\ scores' = <<>>
    /\ result' = NoResult
    /\ trace' = NoTrace

Init ==
    /\ pc = "idle"
    /\ calls = 0
    /\ original_query = <<>>
    /\ limit = 0
    /\ user_id = NoUser
    /\ use_nlp = FALSE
    /\ processed_query = <<>>
    /\ query = <<>>
    /\ nlp_processed = FALSE
    /\ is_advanced = FALSE
    /\ meili_status = "none"
    /\ qdrant_status = "none"
    /\ history_status = "none"
    /\ meili_results = <<>>
    /\ qdrant_results = <<>>
    /\ combined = <<>>
    /\ scores = <<>>
    /\ history = <<>>
    /\ suggestion_cache = <<>>
    /\ popular_terms = <<>>
    /\ result = NoResult
    /\ trace = NoTrace
    /\ suggest_calls = <<>>
    /\ uploads = NoUploads
    /\ retry = NoRetry

\* A caller invokes hybrid_search(query, limit, user_id, use_nlp).
Start ==
    /\ pc = "idle"
    /\ UNCHANGED <<suggest_calls, uploads, retry>>
    /\ calls < MaxCalls
    /\ \E t \in RequestTexts, l \in 1..MaxLimit, u \in UserIds, n \in BOOLEAN :
          /\ original_query' = t
          /\ query' = t
          /\ limit' = l
          /\ user_id' = u
          /\ use_nlp' = n
    /\ pc' = "nlp"
    /\ trace' = [trace EXCEPT !.before =
                    [history |-> history, suggestion_cache |-> suggestion_cache,
                     popular_terms |-> popular_terms]]
    /\ UNCHANGED <<calls, processed_query, nlp_processed, is_advanced,
                   meili_status, qdrant_status, history_status, meili_results,
                   qdrant_results, combined, history, suggestion_cache,
                   popular_terms, scores, result>>

\* `if use_nlp:` ... the call of process_natural_language_query.
Rewrite ==
    /\ pc = "nlp"
    /\ UNCHANGED <<suggest_calls, uploads, retry>>
    /\ IF use_nlp
       THEN \E generated \in ModelOutputs \cup {ModelRaises} :
               LET processed == ProcessNaturalLanguageQuery(query, generated)
                   after_patterns == PatternPass(query)
                   invoked == ModelInvoked(after_patterns) IN
               /\ processed_query' = processed
               /\ query' = IF processed # query THEN processed ELSE query
               /\ nlp_processed' = (processed # query)
               /\ trace' = [trace EXCEPT
                      !.steps = Append(@, "rewrite"),
                      !.model_invoked = invoked,
                      !.generated = IF invoked THEN generated ELSE <<>>,
                      !.after_patterns = after_patterns,
                      !.after_model = ModelPass(after_patterns, query, generated)]
       ELSE UNCHANGED <<processed_query, query, nlp_processed, trace>>
    /\ pc' = "parse"
    /\ UNCHANGED <<calls, original_query, limit, user_id, use_nlp, is_advanced,
                   meili_status, qdrant_status, history_status, meili_results,
                   qdrant_results, combined, history, suggestion_cache,
                   popular_terms, scores, result>>

\* ParseQuery without the second attempt on the original text.
ParseQueryNoFallback(q, original, rewritten) == Parse(q)

\* "Parse and validate query": parser.parse(query), and for a rewritten
\* query that does not parse, parser.parse(original_query).
ParseQuery(q, original, rewritten) ==
    LET first == Parse(q) IN
    IF first.ok THEN first
    ELSE IF rewritten THEN Parse(original)
    ELSE ParseError

ParseStep ==
    /\ pc = "parse"
    /\ UNCHANGED <<suggest_calls, uploads, retry>>
    /\ LET parsed == ParseQuery(query, original_query, nlp_processed) IN
       IF parsed.ok
       THEN /\ query' = parsed.text
            /\ is_advanced' = parsed.is_advanced
            /\ pc' = "lexical"
            /\ trace' = [trace EXCEPT
                   !.steps = Append(@, "parse"),
                   !.raw = IF Parse(query).ok THEN query ELSE original_query]
            /\ UNCHANGED result
       ELSE /\ result' = Raised("invalid_query")
            /\ pc' = "done"
            /\ trace' = [trace EXCEPT !.steps = Append(@, "parse")]
            /\ UNCHANGED <<query, is_advanced>>
    /\ UNCHANGED <<calls, original_query, limit, user_id, use_nlp,
                   processed_query, nlp_processed, meili_status, qdrant_status,
                   history_status, meili_results, qdrant_results, combined,
                   history, suggestion_cache, popular_terms, scores>>

\* OnMeiliSearch with the exception swallowed: the search goes on with no
\* lexical hits.
OnMeiliSearchSwallowed(raised, hits) ==
    IF raised THEN [error |-> "", hits |-> <<>>]
    ELSE [error |-> "", hits |-> hits]

\* How hybrid_search goes on after
\* self.meili_client.index('documents').search(query, params): it has no
\* handler, so an exception of the client leaves hybrid_search.
OnMeiliSearch(raised, hits) ==
    IF raised THEN [error |-> "meili_error", hits |-> <<>>]
    ELSE [error |-> "", hits |-> hits]

\* "Keyword search with Meilisearch".
Lexical ==
    /\ pc = "lexical"
    /\ UNCHANGED <<suggest_calls, uploads, retry>>
    /\ \E raised \in BOOLEAN, h \in HitLists(limit) :
          LET out == OnMeiliSearch(raised, [k \in 1..Len(h) |-> MeiliHit(h[k])]) IN
          /\ trace' = [trace EXCEPT !.steps = Append(@, "lexical"),
                                    !.meili_query = query,
                                    !.meili_limit = limit]
          /\ IF out.error # ""
             THEN /\ result' = Raised(out.error)
                  /\ meili_status' = "failed"
                  /\ pc' = "done"
                  /\ UNCHANGED meili_results
             ELSE /\ meili_results' = out.hits
                  /\ meili_status' = IF raised THEN "failed" ELSE "ok"
                  /\ pc' = "vector"
                  /\ UNCHANGED result
    /\ UNCHANGED <<calls, original_query, limit, user_id, use_nlp,
                   processed_query, query, nlp_processed, is_advanced,
                   qdrant_status, history_status, qdrant_results, combined,
                   history, suggestion_cache, popular_terms, scores>>

\* How hybrid_search goes on after self.embedding_model.encode(query) and
\* self.qdrant_client.search(...): neither call has a handler.
OnVectorSearch(encode_raised, search_raised, hits) ==
    IF encode_raised THEN [error |-> "embedding_error", hits |-> <<>>]
    ELSE IF search_raised THEN [error |-> "qdrant_error", hits |-> <<>>]
    ELSE [error |-> "", hits |-> hits]

\* "Vector search with Qdrant".
Vector ==
    /\ pc = "vector"
    /\ UNCHANGED <<suggest_calls, uploads, retry>>
    /\ \E encode_raised \in BOOLEAN, search_raised \in BOOLEAN, h \in HitLists(limit) :
          LET out == OnVectorSearch(encode_raised, search_raised,
                                    [k \in 1..Len(h) |-> QdrantHit(h[k])]) IN
          /\ trace' = [trace EXCEPT
                 !.steps = Append(@, "vector"),
                 !.embed_text = query,
                 !.qdrant_limit = IF encode_raised THEN 0 ELSE limit]
          /\ IF out.error # ""
             THEN /\ result' = Raised(out.error)
                  /\ qdrant_status' = "failed"
                  /\ pc' = "done"
                  /\ UNCHANGED qdrant_results
             ELSE /\ qdrant_results' = out.hits
                  /\ qdrant_status' = IF encode_raised \/ search_raised
                                      THEN "failed" ELSE "ok"
                  /\ pc' = "combine"
                  /\ UNCHANGED result
    /\ UNCHANGED <<calls, original_query, limit, user_id, use_nlp,
                   processed_query, query, nlp_processed, is_advanced,
                   meili_status, history_status, meili_results, combined,
                   history, suggestion_cache, popular_terms, scores>>

\* "Combine and re-rank results".
Combine ==
    /\ pc = "combine"
    /\ UNCHANGED <<suggest_calls, uploads, retry>>
    /\ combined' = CombineResults(meili_results, qdrant_results)
    /\ scores' = ScoresDict(meili_results, qdrant_results)
    /\ trace' = [trace EXCEPT !.steps = Append(@, "fuse")]
    /\ pc' = "history"
    /\ UNCHANGED <<calls, original_query, limit, user_id, use_nlp,
                   processed_query, query, nlp_processed, is_advanced,
                   meili_status, qdrant_status, history_status, meili_results,
                   qdrant_results, history, suggestion_cache, popular_terms,
                   result>>

\* The row hybrid_search means to add.
HistoryRow(u, q, hits) == [user_id |-> u, query |-> q, result_count |-> Len(hits)]

\* OnHistoryWrite with the row added before the failure shows.
OnHistoryWriteRowKept(u, kwargs, commit_raised) ==
    IF ~Truthy(u) THEN [error |-> "", status |-> "skipped"]
    ELSE [error |-> IF ConstructorRaises(kwargs) THEN "type_error"
                    ELSE IF commit_raised THEN "history_error" ELSE "",
          status |-> "written"]

\* How hybrid_search goes on after the block "Log search history if user is
\* authenticated": "" or the exception leaving it.  commit_raised tells
\* whether session.commit() raises.
OnHistoryWrite(u, kwargs, commit_raised) ==
    IF ~Truthy(u) THEN [error |-> "", status |-> "skipped"]
    ELSE IF ConstructorRaises(kwargs) THEN [error |-> "type_error", status |-> "failed"]
    ELSE IF commit_raised THEN [error |-> "history_error", status |-> "failed"]
    ELSE [error |-> "", status |-> "written"]

LogHistory ==
    /\ pc = "history"
    /\ UNCHANGED <<suggest_calls, uploads, retry>>
    /\ \E commit_raised \in BOOLEAN :
          LET out == OnHistoryWrite(user_id, HistoryKwargs, commit_raised) IN
          /\ history_status' = out.status
          /\ history' = IF out.status = "written"
                        THEN Append(history,
                                    HistoryRow(user_id, query, Truncate(combined, limit)))
                        ELSE history
          /\ trace' = IF out.status = "skipped" THEN trace
                       ELSE [trace EXCEPT !.steps = Append(@, "log")]
          /\ IF out.error # ""
             THEN result' = Raised(out.error) /\ pc' = "done"
             ELSE pc' = "suggest" /\ UNCHANGED result
    /\ UNCHANGED <<calls, original_query, limit, user_id, use_nlp,
                   processed_query, query, nlp_processed, is_advanced,
                   meili_status, qdrant_status, meili_results, qdrant_results,
                   combined, suggestion_cache, popular_terms, scores>>

\* The dict hybrid_search returns.
Response(suggestions) ==
    [kind |-> "ok", error |-> "",
     hits |-> Truncate(combined, limit),
     facets |-> NoFacets,
     query_suggestions |-> suggestions,
     nlp_processed |-> nlp_processed,
     original_query |-> IF nlp_processed THEN original_query ELSE <<>>]

\* The return statement with its call of _generate_suggestions(query, user_id).
Suggest ==
    /\ pc = "suggest"
    /\ UNCHANGED <<suggest_calls, uploads, retry>>
    /\ LET key == CacheKey(query, user_id) IN
       IF TooShort(query)
       THEN /\ result' = Response(<<>>)
            /\ trace' = [trace EXCEPT !.steps = Append(@, "suggest"),
                                      !.suggest_outcome = "short"]
            /\ UNCHANGED suggestion_cache
       ELSE IF CacheHit(suggestion_cache, key)
       THEN /\ result' = Response(Truncate(suggestion_cache[key], SuggestionLimit))
            /\ trace' = [trace EXCEPT !.steps = Append(@, "suggest"),
                                      !.suggest_outcome = "hit"]
            /\ UNCHANGED suggestion_cache
       ELSE \E prefix_raised \in BOOLEAN, read_raised \in BOOLEAN,
               titles \in SUBSET Titles :
               LET failure == SuggestFailure(user_id, prefix_raised, read_raised) IN
               \E ranked \in IF failure # "" THEN {<<>>}
                              ELSE RankSuggestions(titles,
                                     IF Truthy(user_id)
                                     THEN RecentQueries(history, user_id) ELSE <<>>,
                                     query, popular_terms) :
                  LET out == TryGenerate(suggestion_cache, key, failure, ranked) IN
                  /\ suggestion_cache' = out.cache
                  /\ result' = Response(out.suggestions)
                  /\ trace' = [trace EXCEPT
                         !.steps = Append(@, "suggest"),
                         !.suggest_outcome = IF failure # "" THEN "failed" ELSE "ranked",
                         !.suggest_failure = failure]
    /\ pc' = "done"
    /\ UNCHANGED <<calls, original_query, limit, user_id, use_nlp,
                   processed_query, query, nlp_processed, is_advanced,
                   meili_status, qdrant_status, history_status, meili_results,
                   qdrant_results, combined, history, popular_terms, scores>>

\* The caller has the response or the exception; the next call may start.
Return ==
    /\ pc = "done"
    /\ UNCHANGED <<suggest_calls, uploads, retry>>
    /\ pc' = "idle"
    /\ calls' = calls + 1
    /\ CallReset
    /\ UNCHANGED <<history, suggestion_cache, popular_terms>>

Next ==
    \/ Start
    \/ Rewrite
    \/ ParseStep
    \/ Lexical
    \/ Vector
    \/ Combine
    \/ LogHistory
    \/ Suggest
    \/ Return

Spec == Init /\ [][Next]_vars

\* ------------------------------------------------ fusion on its own
\* _combine_results applied to every pair of hit lists of at most MaxHits
\* documents.
InitFuse ==
    /\ pc = "combine"
    /\ calls = 0
    /\ original_query = <<>>
    /\ limit = 0
    /\ user_id = NoUser
    /\ use_nlp = FALSE
    /\ processed_query = <<>>
    /\ query = <<>>
    /\ nlp_processed = FALSE
    /\ is_advanced = FALSE
    /\ meili_status = "ok"
    /\ qdrant_status = "ok"
    /\ history_status = "none"
    /\ \E h \in HitLists(MaxHits) : meili_results = [k \in 1..Len(h) |-> MeiliHit(h[k])]
    /\ \E h \in HitLists(MaxHits) : qdrant_results = [k \in 1..Len(h) |-> QdrantHit(h[k])]
    /\ combined = <<>>
    /\ scores = <<>>
    /\ history = <<>>
    /\ suggestion_cache = <<>>
    /\ popular_terms = <<>>
    /\ result = NoResult
    /\ trace = NoTrace
    /\ suggest_calls = <<>>
    /\ uploads = NoUploads
    /\ retry = NoRetry

NextFuse == Combine

SpecFuse == InitFuse /\ [][NextFuse]_vars

\* ------------------------------------------------------------- properties
\* The call in progress got as far as _combine_results.
Fused == pc \in {"history", "suggest"} \/ (pc = "done" /\ history_status # "none")

\* The 0-based rank of the document id in a hit list; the length of the
\* list, larger than every rank in it, when the document is absent.
RankIn(results, id) ==
    IF DictIndex(results, id) = 0 THEN Len(results) ELSE DictIndex(results, id) - 1

InList(results, id) == DictIndex(results, id) # 0

\* C1: if the vector search or the query embedding fails while the lexical
\* search succeeds, the call returns a response whose hits are the fusion
\* of the lexical hits alone.
C1_VectorFailureDegrades ==
    (pc = "done" /\ meili_status = "ok" /\ qdrant_status = "failed") =>
        /\ result.kind = "ok"
        /\ result.hits = Truncate(CombineResults(meili_results, <<>>), limit)

\* C2: if writing the history row fails in a call with a user id, the call
\* still returns its response: the hits of the fusion, cut to limit.
C2_HistoryFailureHidden ==
    (pc = "done" /\ history_status = "failed") =>
        /\ result.kind = "ok"
        /\ result.hits = Truncate(combined, limit)

\* C3: a call that got through retrieval and fusion ends with exactly one
\* new history row holding the user's id, the query and the number of hits
\* returned when a user id was passed, and with no new row otherwise.
C3_OneHistoryRowPerCall ==
    (pc = "done" /\ history_status # "none") =>
        IF Truthy(user_id)
        THEN /\ result.kind = "ok"
             /\ history_status = "written"
             /\ history # <<>>
             /\ history[Len(history)] =
                   [user_id |-> user_id, query |-> query,
                    result_count |-> Len(result.hits)]
        ELSE history_status = "skipped"

\* C4: with use_nlp set and an original text that parses, the call never
\* raises the invalid-query error; when the rewritten text does not parse,
\* the query used from then on is the parse of the original text.
C4_RewriteNeverBreaksQuery ==
    (use_nlp /\ Parse(original_query).ok /\ pc \notin {"idle", "nlp", "parse"}) =>
        /\ result.error # "invalid_query"
        /\ (nlp_processed /\ ~Parse(processed_query).ok) =>
               query = Parse(original_query).text

C4_Witness ==
    /\ pc = "done"
    /\ result.kind = "ok"
    /\ use_nlp
    /\ nlp_processed
    /\ processed_query # original_query
    /\ ~Parse(processed_query).ok
    /\ Parse(original_query).ok
    /\ query = Parse(original_query).text

\* C5: if the lexical search fails the whole call fails with the error of
\* the lexical backend; the vector backend is not consulted and no response
\* with hits is returned.
C5_LexicalFailureFails ==
    (meili_status = "failed") =>
        /\ pc = "done"
        /\ result.kind = "error"
        /\ result.error = "meili_error"
        /\ result.hits = <<>>
        /\ qdrant_status = "none"

C5_Witness ==
    /\ pc = "done"
    /\ meili_status = "failed"
    /\ result.kind = "error"

\* C6: the fused list holds each document id at most once, also when the
\* two hit lists share documents.
C6_NoDuplicateIds ==
    Fused => \A i, j \in 1..Len(combined) : i # j => combined[i].id # combined[j].id

C6_Witness ==
    /\ Fused
    /\ Len(combined) >= 2
    /\ \E d \in Docs : InList(meili_results, d) /\ InList(qdrant_results, d)

\* C7: the score of each document is the sum, over the lists it is in, of
\* 1 - r/N; an empty list adds nothing; a document first in both lists has
\* score 2, and no document of the call has more.
C7_ScoreIsSumOfContributions ==
    Fused =>
        LET n1 == Len(meili_results)
            n2 == Len(qdrant_results)
            den == Max(n1, 1) * Max(n2, 1) IN
        /\ DOMAIN scores = {d \in Docs : InList(meili_results, d) \/ InList(qdrant_results, d)}
        /\ \A d \in DOMAIN scores :
              /\ scores[d] =
                    (IF InList(meili_results, d)
                     THEN ((n1 - RankIn(meili_results, d)) * den) \div n1 ELSE 0)
                    + (IF InList(qdrant_results, d)
                       THEN ((n2 - RankIn(qdrant_results, d)) * den) \div n2 ELSE 0)
              /\ scores[d] <= 2 * den
              /\ (/\ InList(meili_results, d) /\ RankIn(meili_results, d) = 0
                  /\ InList(qdrant_results, d) /\ RankIn(qdrant_results, d) = 0)
                    => scores[d] = 2 * den

C7_Witness ==
    /\ Fused
    /\ Len(meili_results) >= 2
    /\ Len(qdrant_results) >= 2
    /\ Len(meili_results) # Len(qdrant_results)
    /\ meili_results[1].id = qdrant_results[1].id
    /\ scores[meili_results[1].id] = 2 * Len(meili_results) * Len(qdrant_results)

\* The place of a document id in the ascending order of the ids.
IdRank(d) == CASE d = "A" -> 1 [] d = "B" -> 2 [] d = "C" -> 3 [] OTHER -> 4

\* x comes before y in the order: score descending, then lexical rank,
\* then vector rank, then id, an absent rank counting as the largest.
Precedes(x, y) ==
    LET lx == RankIn(meili_results, x)
        ly == RankIn(meili_results, y)
        vx == RankIn(qdrant_results, x)
        vy == RankIn(qdrant_results, y) IN
    \/ scores[x] > scores[y]
    \/ /\ scores[x] = scores[y]
       /\ \/ lx < ly
          \/ lx = ly /\ vx < vy
          \/ lx = ly /\ vx = vy /\ IdRank(x) < IdRank(y)

\* C8: the fused list is in the order Precedes, so its scores never
\* increase along it; lexical [A, B] and vector [B, C] give B, A, C.
C8_FusedOrder ==
    Fused =>
        /\ \A i, j \in 1..Len(combined) :
              i < j => /\ Precedes(combined[i].id, combined[j].id)
                       /\ scores[combined[i].id] >= scores[combined[j].id]
        /\ (/\ meili_results = <<MeiliHit("A"), MeiliHit("B")>>
            /\ qdrant_results = <<QdrantHit("B"), QdrantHit("C")>>)
              => [k \in 1..Len(combined) |-> combined[k].id] = <<"B", "A", "C">>

\* Two documents of equal score, the order between them decided by rank.
C8_Witness ==
    /\ Fused
    /\ \E i, j \in 1..Len(combined) :
          /\ i < j
          /\ scores[combined[i].id] = scores[combined[j].id]
          /\ InList(meili_results, combined[j].id)
          /\ InList(qdrant_results, combined[i].id)

\* C9: a response holds at most limit hits, and none when both backends
\* returned nothing.
C9_LimitRespected ==
    (pc = "done" /\ result.kind = "ok") =>
        /\ limit > 0
        /\ Len(result.hits) <= limit
        /\ (meili_results = <<>> /\ qdrant_results = <<>>) => result.hits = <<>>

C9_Witness ==
    /\ pc = "done"
    /\ result.kind = "ok"
    /\ Len(meili_results) = limit
    /\ Len(qdrant_results) = limit
    /\ Len(combined) > limit
    /\ Len(result.hits) = limit

\* C10: a fused document found in the lexical list is the lexical hit, with
\* the lexical payload, also when the vector list has it too; a document of
\* the vector list alone is the vector payload.
C10_LexicalPayloadWins ==
    Fused =>
        \A k \in 1..Len(combined) :
            IF InList(meili_results, combined[k].id)
            THEN combined[k] = meili_results[DictIndex(meili_results, combined[k].id)]
            ELSE combined[k] = qdrant_results[DictIndex(qdrant_results, combined[k].id)]

C10_Witness ==
    /\ Fused
    /\ \E k \in 1..Len(combined) :
          /\ InList(meili_results, combined[k].id)
          /\ InList(qdrant_results, combined[k].id)
          /\ combined[k].payload = "meili"
    /\ \E k \in 1..Len(combined) : combined[k].payload = "qdrant"

\* ------------------------------------------------ the parser on its own
\* Longest query, in words, given to QueryParser.parse on its own.
MaxWords == 4

\* The words queries are made of: a term, the three operators in either
\* case, a word that has an operator name inside, a quoted operator name,
\* a quoted phrase and a word with an opening quote that is never closed.
Lexemes ==
    {<<"a">>, <<"AND">>, <<"or">>, <<"NOT">>, <<"band">>,
     <<QUOTE, "or", QUOTE>>, <<QUOTE, "a", SP, "b", QUOTE>>, <<QUOTE, "a">>}

\* The queries of at most MaxWords words, one blank between two words.
ParseTexts ==
    {Join(words) : words \in UNION {[1..n -> Lexemes] : n \in 1..MaxWords}}

\* hybrid_search(query, use_nlp=False) at its statement
\* parser.parse(query), for every query of ParseTexts.
InitParse ==
    /\ pc = "parse"
    /\ calls = 0
    /\ original_query \in ParseTexts
    /\ query = original_query
    /\ limit = 1
    /\ user_id = NoUser
    /\ use_nlp = FALSE
    /\ processed_query = <<>>
    /\ nlp_processed = FALSE
    /\ is_advanced = FALSE
    /\ meili_status = "none"
    /\ qdrant_status = "none"
    /\ history_status = "none"
    /\ meili_results = <<>>
    /\ qdrant_results = <<>>
    /\ combined = <<>>
    /\ scores = <<>>
    /\ history = <<>>
    /\ suggestion_cache = <<>>
    /\ popular_terms = <<>>
    /\ result = NoResult
    /\ trace = NoTrace
    /\ suggest_calls = <<>>
    /\ uploads = NoUploads
    /\ retry = NoRetry

NextParse == ParseStep

SpecParse == InitParse /\ [][NextParse]_vars

\* parser.parse returned: query holds the structured text.
ParseAccepted == pc = "lexical"
\* parser.parse raised ValueError.
ParseFailed == pc = "done" /\ result.kind = "error" /\ result.error = "invalid_query"

RECURSIVE SplitFrom(_, _, _)
\* text.split() on blanks: the runs of symbols between blanks.
SplitFrom(rest, words, current) ==
    IF rest = <<>>
    THEN IF current # <<>> THEN Append(words, current) ELSE words
    ELSE IF Head(rest) = SP
    THEN SplitFrom(Tail(rest), IF current # <<>> THEN Append(words, current) ELSE words, <<>>)
    ELSE SplitFrom(Tail(rest), words, Append(current, Head(rest)))

SplitWords(text) == SplitFrom(text, <<>>, <<>>)

\* None of the whitespace-delimited tokens of text is AND, OR or NOT in
\* any case.
NoOperatorWord(text) ==
    LET words == SplitWords(text) IN
    \A k \in 1..Len(words) : ~IsOperator(words[k])

\* C11: for a query none of whose whitespace-delimited tokens is AND, OR or
\* NOT in any case, parse returns is_advanced = False and a text identical
\* to the query.
C11_PlainQueryPassesThrough ==
    (pc # "parse" /\ NoOperatorWord(original_query))
        => (ParseAccepted /\ ~is_advanced /\ query = original_query)

\* The first whitespace-delimited token is AND or OR and others follow.
LeadingBinaryOperator(text) ==
    LET words == SplitWords(text) IN
    /\ Len(words) >= 2
    /\ IsOperator(words[1])
    /\ Upper(words[1][1]) \in {"AND", "OR"}

\* Two operator tokens stand next to each other.
AdjacentOperators(text) ==
    LET words == SplitWords(text) IN
    \E k \in 1..(Len(words) - 1) : IsOperator(words[k]) /\ IsOperator(words[k + 1])

\* C12: parse raises for a query whose first token is AND or OR followed by
\* further tokens, and for a query with two consecutive operator tokens.
C12_LeadingOrAdjacentOperatorFails ==
    (pc # "parse"
        /\ (LeadingBinaryOperator(original_query) \/ AdjacentOperators(original_query)))
        => ParseFailed

\* The last whitespace-delimited token is AND, OR or NOT.
TrailingOperator(text) ==
    LET words == SplitWords(text) IN
    Len(words) >= 1 /\ IsOperator(words[Len(words)])

\* C13: parse raises for a query whose last token is an operator, a single
\* operator token included.
C13_TrailingOperatorFails ==
    (pc # "parse" /\ TrailingOperator(original_query)) => ParseFailed

\* Number of double quotes of text.
QuoteCount(text) == Cardinality({k \in 1..Len(text) : text[k] = QUOTE})

\* C14: parse raises for a query that has an operator token and an odd
\* number of double quotes.
C14_UnbalancedQuotesFail ==
    (pc # "parse"
        /\ ~NoOperatorWord(original_query)
        /\ QuoteCount(original_query) % 2 = 1)
        => ParseFailed

RECURSIVE TermsFrom(_, _, _, _)
\* The terms of a query as its writer means them: a word is a run of
\* symbols between blanks, a quoted phrase runs from a double quote to the
\* next one and is a term whatever it holds.
TermsFrom(rest, terms, current, in_quotes) ==
    LET flushed == IF current # <<>>
                   THEN Append(terms, [text |-> current, quoted |-> in_quotes])
                   ELSE terms IN
    IF rest = <<>> THEN flushed
    ELSE IF Head(rest) = QUOTE
    THEN IF in_quotes
         THEN TermsFrom(Tail(rest), Append(terms, [text |-> current, quoted |-> TRUE]),
                        <<>>, FALSE)
         ELSE TermsFrom(Tail(rest), flushed, <<>>, TRUE)
    ELSE IF Head(rest) = SP /\ ~in_quotes
    THEN TermsFrom(Tail(rest), flushed, <<>>, FALSE)
    ELSE TermsFrom(Tail(rest), terms, Append(current, Head(rest)), in_quotes)

Terms(text) == TermsFrom(text, <<>>, <<>>, FALSE)

\* The term is an operator: an unquoted AND, OR or NOT.
IsOperatorTerm(term) == ~term.quoted /\ IsOperator(term.text)

\* A well-formed boolean query: balanced quotes, an operator somewhere, none
\* first or last, no two next to each other.
WellFormed(text) ==
    LET terms == Terms(text) IN
    /\ QuoteCount(text) % 2 = 0
    /\ \E k \in 1..Len(terms) : IsOperatorTerm(terms[k])
    /\ ~IsOperatorTerm(terms[1])
    /\ ~IsOperatorTerm(terms[Len(terms)])
    /\ \A k \in 1..(Len(terms) - 1) :
          ~(IsOperatorTerm(terms[k]) /\ IsOperatorTerm(terms[k + 1]))

\* Number of AND and OR operators of the query.
BinaryOperatorCount(text) ==
    LET terms == Terms(text) IN
    Cardinality({k \in 1..Len(terms) :
                   IsOperatorTerm(terms[k]) /\ Upper(terms[k].text[1]) \in {"AND", "OR"}})

\* Occurrences of sym among the first k symbols of text.
Count(text, sym, k) == Cardinality({j \in 1..k : text[j] = sym})

\* Every ")" closes an earlier "(" and every "(" is closed.
ParenBalanced(text) ==
    /\ \A k \in 1..Len(text) : Count(text, ")", k) <= Count(text, "(", k)
    /\ Count(text, ")", Len(text)) = Count(text, "(", Len(text))

\* C15: for a well-formed boolean query (terms are words or quoted phrases,
\* no operator first or last, no two adjacent operators, balanced quotes)
\* parse returns, and the text it returns has balanced parentheses, one
\* pair for each AND/OR of the query.
C15_WellFormedParses ==
    (pc # "parse" /\ WellFormed(original_query))
        => /\ ParseAccepted
           /\ ParenBalanced(query)
           /\ Count(query, "(", Len(query)) = BinaryOperatorCount(original_query)

\* The fold has no result: an operator without the operand it needs.
NoFold == [defined |-> FALSE, text |-> <<>>]

RECURSIVE RefFoldFrom(_, _, _, _)
\* The reference fold over tokens from the k-th on.  out holds the fragments
\* emitted so far, pending the operator waiting for its right operand ("" if
\* none).  A binary operator takes the last fragment as its left operand; at
\* the front of the query there is neither a fragment nor a token before it.
RefFoldFrom(tokens, k, out, pending) ==
    IF k > Len(tokens)
    THEN IF pending = "" THEN [defined |-> TRUE, text |-> Join(out)] ELSE NoFold
    ELSE LET token == tokens[k] IN
         IF pending = "NOT"
         THEN RefFoldFrom(tokens, k + 1, Append(out, <<"NOT", SP>> \o token), "")
         ELSE IF pending # ""
         THEN LET L == out[Len(out)] IN
              RefFoldFrom(tokens, k + 1,
                  [out EXCEPT ![Len(out)] =
                      <<"(">> \o L \o <<SP, pending, SP>> \o token \o <<")">>],
                  "")
         ELSE IF ~IsOperator(token)
         THEN RefFoldFrom(tokens, k + 1, Append(out, token), "")
         ELSE IF Upper(token[1]) # "NOT" /\ out = <<>>
         THEN NoFold
         ELSE RefFoldFrom(tokens, k + 1, out, Upper(token[1]))

RefFold(tokens) == RefFoldFrom(tokens, 1, <<>>, "")

\* C16: on every token sequence parse accepts, the text it returns is the
\* space-joined result of the reference left-to-right fold: NOT with the
\* next token gives the fragment 'NOT term', AND/OR replace the last
\* fragment L by '(L OP R)' with R the next token, other tokens are emitted
\* as they are.
C16_MatchesReferenceFold ==
    (ParseAccepted /\ is_advanced)
        => LET ref == RefFold(Tokenize(original_query)) IN
           ref.defined /\ query = ref.text

\* ------------------------------------------- the steps of one search call
\* Place of a step in the order rewrite, parse, dispatch to the lexical and
\* the vector backend, fuse, generate suggestions, log history.
StepRank(step) ==
    CASE step = "rewrite" -> 1
      [] step = "parse" -> 2
      [] step = "lexical" -> 3
      [] step = "vector" -> 4
      [] step = "fuse" -> 5
      [] step = "suggest" -> 6
      [] step = "log" -> 7

\* The step was taken in the call in progress.
Stepped(step) == \E k \in 1..Len(trace.steps) : trace.steps[k] = step

\* The call in progress returned its response.
Succeeded == pc = "done" /\ result.kind = "ok"

\* C17: within one search call the steps are taken in the order rewrite (if
\* asked for), parse, dispatch, fuse, generate suggestions, log history,
\* each at most once; history is logged only after the suggestions have
\* been generated; a call that succeeds has taken them all, the history
\* step exactly when a user id was given.
C17_StepOrder ==
    /\ \A j, k \in 1..Len(trace.steps) :
          j < k => StepRank(trace.steps[j]) < StepRank(trace.steps[k])
    /\ Stepped("log") => Stepped("suggest")
    /\ Succeeded =>
          /\ \A step \in {"parse", "lexical", "vector", "fuse", "suggest"} : Stepped(step)
          /\ Stepped("rewrite") <=> use_nlp
          /\ Stepped("log") <=> Truthy(user_id)

\* C18: the lexical backend is searched with the structured text parse
\* returned, the vector backend with the embedding of the raw text as it was
\* before parsing, both with the limit of the caller.
C18_BackendArguments ==
    /\ Stepped("lexical") =>
          /\ trace.meili_query = query
          /\ trace.meili_limit = limit
    /\ Stepped("vector") =>
          /\ trace.embed_text = trace.raw
          /\ (qdrant_status = "ok" => trace.qdrant_limit = limit)

\* ---------------------------------------------- the rewriter on its own
\* Longest text, in words after the command words, given to
\* process_natural_language_query on its own.
MaxRewriteWords == 4

\* The words of these texts; "only" is one of the filter intent words.
RewriteWords == {<<"a">>, <<"b">>, <<"only">>}

\* The texts of at most MaxRewriteWords words, as they are and behind the
\* command words "find me".
RewriteTexts ==
    LET bodies == {Join(words) :
                     words \in UNION {[1..n -> RewriteWords] : n \in 1..MaxRewriteWords}} IN
    bodies \cup {<<"find", SP, "me", SP>> \o body : body \in bodies}

\* hybrid_search(query, use_nlp=True) at its statement `if use_nlp:`, for
\* every text of RewriteTexts.
InitRewrite ==
    /\ pc = "nlp"
    /\ calls = 0
    /\ original_query \in RewriteTexts
    /\ query = original_query
    /\ limit = 1
    /\ user_id = NoUser
    /\ use_nlp = TRUE
    /\ processed_query = <<>>
    /\ nlp_processed = FALSE
    /\ is_advanced = FALSE
    /\ meili_status = "none"
    /\ qdrant_status = "none"
    /\ history_status = "none"
    /\ meili_results = <<>>
    /\ qdrant_results = <<>>
    /\ combined = <<>>
    /\ scores = <<>>
    /\ history = <<>>
    /\ suggestion_cache = <<>>
    /\ popular_terms = <<>>
    /\ result = NoResult
    /\ trace = NoTrace
    /\ suggest_calls = <<>>
    /\ uploads = NoUploads
    /\ retry = NoRetry

NextRewrite == Rewrite

SpecRewrite == InitRewrite /\ [][NextRewrite]_vars

\* process_natural_language_query has returned to hybrid_search.
Rewritten == pc = "parse" /\ Stepped("rewrite")

\* C19: when the model call made by process_natural_language_query fails,
\* the text it returns is the original text, unchanged, and hybrid_search
\* goes on with nlp_processed = False.
C19_ModelFailureReturnsOriginal ==
    (Rewritten /\ trace.model_invoked /\ trace.generated = ModelRaises)
        => /\ processed_query = original_query
           /\ query = original_query
           /\ ~nlp_processed

\* The model was asked and its answer is empty or longer than 500
\* characters.
ModelOutputRejected ==
    /\ Rewritten
    /\ trace.model_invoked
    /\ trace.generated # ModelRaises
    /\ (trace.generated = <<>> \/ IsTooLong(trace.generated))

\* C20 as stated: when the answer of the model is empty or longer than 500
\* characters, the text carried forward is the text before the model pass,
\* the result of the pattern pass.
C20_FallsBackToPreModelText ==
    ModelOutputRejected => trace.after_model = trace.after_patterns

\* C20 amended: when the answer of the model is empty or longer than 500
\* characters, the text carried forward is the original text given to the
\* rewriter, as it was before the pattern pass.
C20_FallsBackToOriginalText ==
    ModelOutputRejected => trace.after_model = original_query

\* An answer was rejected for a text the pattern pass had changed.
C20_Witness ==
    /\ ModelOutputRejected
    /\ trace.after_patterns # original_query
    /\ trace.after_model # trace.after_patterns

\* ------------------------------------- shared state across search calls
\* C24: no step removes an entry of the suggestion cache or changes the
\* value stored under a key: the keys only grow and an entry, once
\* written, is what every later call for its key gets.
C24_CacheOnlyGrows ==
    [][\A k \in DOMAIN suggestion_cache :
          /\ k \in DOMAIN suggestion_cache'
          /\ suggestion_cache'[k] = suggestion_cache[k]]_vars

\* A later call was answered from the entry an earlier call had written.
C24_Witness ==
    /\ calls >= 1
    /\ pc = "done"
    /\ trace.suggest_outcome = "hit"
    /\ result.query_suggestions # <<>>
    /\ result.query_suggestions =
          Truncate(suggestion_cache[CacheKey(query, user_id)], SuggestionLimit)

\* The text parser.parse accepted is the changed text of the rewriter.
RewriteUsed == processed_query # <<>> /\ processed_query # original_query
                 /\ trace.raw = processed_query

\* C25: the response says nlp_processed = True and carries original_query
\* exactly when the text that was parsed and searched for is the changed
\* text of the rewriter; after the fallback to the original text it says
\* False and carries no original_query.
C25_RewrittenFlagTellsWhatWasSearched ==
    Succeeded =>
        /\ result.nlp_processed <=> RewriteUsed
        /\ result.original_query = IF RewriteUsed THEN original_query ELSE <<>>

C28_FailedCallChangesNothing ==
    (pc = "done" /\ result.kind = "error") =>
        /\ history = trace.before.history
        /\ suggestion_cache = trace.before.suggestion_cache
        /\ popular_terms = trace.before.popular_terms

\* A call failed at its history block after an earlier call had filled the
\* cache.
C28_Witness ==
    /\ pc = "done"
    /\ result.kind = "error"
    /\ history_status = "failed"
    /\ suggestion_cache # <<>>

\* ------------------------------------ _generate_suggestions on its own
\* Number of _generate_suggestions calls started, at once or one after the
\* other.
MaxSuggestCalls == 2

\* The queries suggestions are asked for: two below the threshold of two
\* characters and one text in both cases.
SuggestQueries == {<<>>, <<"a">>, <<"a", "b">>, <<"A", "B">>}

\* The callers: anonymous and two users.
SuggestUsers == {NoUser, 1, 2}

\* A title of n characters that starts with "Ab".
TitleOfLen(n) == [i \in 1..n |-> IF i = 1 THEN "A" ELSE IF i = 2 THEN "b" ELSE "a"]

\* What the prefix search of line 432 may answer, at most 10 hits: a few
\* titles, two of them of equal length, or eight matching titles of
\* different lengths and one that does not match.
TitleAnswers ==
    {{<<"b", "a">>, <<"a", "b">>, <<"A", "B">>},
     {TitleOfLen(n) : n \in {2} \cup 4..10} \cup {<<"b", "a">>}}

\* The rows of search_history the calls find: queries of user 1 and user 2.
SuggestHistory ==
    <<[user_id |-> 1, query |-> <<"a", "b", "b">>, result_count |-> 1],
      [user_id |-> 2, query |-> <<"a", "b", "B">>, result_count |-> 1],
      [user_id |-> 1, query |-> <<"b">>, result_count |-> 0]>>

\* The variables of hybrid_search, which these calls leave alone.
SearchVars ==
    <<pc, calls, original_query, limit, user_id, use_nlp, processed_query,
      query, nlp_processed, is_advanced, meili_status, qdrant_status,
      history_status, meili_results, qdrant_results, combined, scores,
      history, popular_terms, result, trace>>

\* A call that has returned.
Returned(q, u, titles, suggestions, outcome, meili_called, history_read) ==
    [pc |-> "returned", query |-> q, user_id |-> u, titles |-> titles,
     suggestions |-> suggestions, outcome |-> outcome,
     meili_called |-> meili_called, history_read |-> history_read]

\* A call suspended at `async with SessionLocal()` / `await
\* session.execute(...)`, holding the answer of the prefix search.
Reading(q, u, titles) ==
    [pc |-> "reading", query |-> q, user_id |-> u, titles |-> titles,
     suggestions |-> <<>>, outcome |-> "", meili_called |-> TRUE,
     history_read |-> FALSE]

\* _generate_suggestions(query, user_id) from its first statement to its
\* return or to its first await.  Nothing before the history read of a
\* signed-in caller awaits, so this runs without another call in between.
SuggestCall ==
    /\ pc = "suggesting"
    /\ Len(suggest_calls) < MaxSuggestCalls
    /\ \E q \in SuggestQueries, u \in SuggestUsers :
          LET key == CacheKey(q, u) IN
          IF TooShort(q)
          THEN /\ suggest_calls' = Append(suggest_calls,
                      Returned(q, u, {}, <<>>, "short", FALSE, FALSE))
               /\ UNCHANGED suggestion_cache
          ELSE IF CacheHit(suggestion_cache, key)
          THEN /\ suggest_calls' = Append(suggest_calls,
                      Returned(q, u, {}, Truncate(suggestion_cache[key], SuggestionLimit),
                               "hit", FALSE, FALSE))
               /\ UNCHANGED suggestion_cache
          ELSE \E prefix_raised \in BOOLEAN :
                  IF prefix_raised
                  THEN LET out == TryGenerate(suggestion_cache, key,
                                      SuggestFailure(u, TRUE, FALSE), <<>>) IN
                       /\ suggest_calls' = Append(suggest_calls,
                              Returned(q, u, {}, out.suggestions, "failed", TRUE, FALSE))
                       /\ suggestion_cache' = out.cache
                  ELSE \E titles \in TitleAnswers :
                          IF Truthy(u)
                          THEN /\ suggest_calls' = Append(suggest_calls, Reading(q, u, titles))
                               /\ UNCHANGED suggestion_cache
                          ELSE \E ranked \in RankSuggestions(titles, <<>>, q, popular_terms) :
                                  LET out == TryGenerate(suggestion_cache, key, "", ranked) IN
                                  /\ suggest_calls' = Append(suggest_calls,
                                         Returned(q, u, titles, out.suggestions,
                                                  "ranked", TRUE, FALSE))
                                  /\ suggestion_cache' = out.cache
    /\ UNCHANGED <<SearchVars, uploads, retry>>

\* A suspended call goes on: the history read answers or raises, then
\* _rank_suggestions, the cache write and the return.
SuggestRead ==
    /\ pc = "suggesting"
    /\ \E i \in DOMAIN suggest_calls :
          LET c == suggest_calls[i]
              key == CacheKey(c.query, c.user_id) IN
          /\ c.pc = "reading"
          /\ \E read_raised \in BOOLEAN :
                LET failure == SuggestFailure(c.user_id, FALSE, read_raised) IN
                \E ranked \in IF failure # "" THEN {<<>>}
                              ELSE RankSuggestions(c.titles,
                                       RecentQueries(history, c.user_id),
                                       c.query, popular_terms) :
                   LET out == TryGenerate(suggestion_cache, key, failure, ranked) IN
                   /\ suggest_calls' = [suggest_calls EXCEPT ![i] =
                          Returned(c.query, c.user_id, c.titles, out.suggestions,
                                   IF failure # "" THEN "failed" ELSE "ranked",
                                   TRUE, TRUE)]
                   /\ suggestion_cache' = out.cache
    /\ UNCHANGED <<SearchVars, uploads, retry>>

InitSuggest ==
    /\ pc = "suggesting"
    /\ calls = 0
    /\ original_query = <<>>
    /\ query = <<>>
    /\ limit = 0
    /\ user_id = NoUser
    /\ use_nlp = FALSE
    /\ processed_query = <<>>
    /\ nlp_processed = FALSE
    /\ is_advanced = FALSE
    /\ meili_status = "none"
    /\ qdrant_status = "none"
    /\ history_status = "none"
    /\ meili_results = <<>>
    /\ qdrant_results = <<>>
    /\ combined = <<>>
    /\ scores = <<>>
    /\ history = SuggestHistory
    /\ suggestion_cache = <<>>
    /\ popular_terms = <<>>
    /\ result = NoResult
    /\ trace = NoTrace
    /\ suggest_calls = <<>>
    /\ uploads = NoUploads
    /\ retry = NoRetry

NextSuggest == SuggestCall \/ SuggestRead

SpecSuggest == InitSuggest /\ [][NextSuggest]_vars

\* The key of the cache entry of caller u and query q: the user id, or
\* 'global' for a caller without one, and the query in lower case.
EntryKey(u, q) ==
    <<IF u = NoUser \/ u = 0 THEN "global" ELSE ToString(u), ":">> \o LowerText(q)

\* The first eight elements of a sequence.
FirstEight(seq) == SubSeq(seq, 1, IF Len(seq) < 8 THEN Len(seq) ELSE 8)

\* The calls that begin in this step.
NewCalls == DOMAIN suggest_calls' \ DOMAIN suggest_calls

\* C21: a call for a query of two characters or more whose key, made of the
\* user id or 'global' and the query in lower case, has an entry in the
\* cache returns the first 8 elements of the entry, calls neither the
\* lexical backend nor the history store, and leaves the cache as it is;
\* the case of the letters of the query makes no difference.
C21_CacheHitAnswersFromCache ==
    [][\A i \in NewCalls :
          LET c == suggest_calls'[i]
              key == EntryKey(c.user_id, c.query) IN
          (TextLen(c.query) >= 2 /\ key \in DOMAIN suggestion_cache) =>
              /\ c.pc = "returned"
              /\ c.suggestions = FirstEight(suggestion_cache[key])
              /\ ~c.meili_called
              /\ ~c.history_read
              /\ suggestion_cache' = suggestion_cache]_vars

\* A call was answered from an entry of more than 8 suggestions that a call
\* with the query in the other case had written.
C21_Witness ==
    \E i, j \in DOMAIN suggest_calls :
        /\ j < i
        /\ suggest_calls[j].outcome = "ranked"
        /\ suggest_calls[i].outcome = "hit"
        /\ suggest_calls[i].user_id = suggest_calls[j].user_id
        /\ suggest_calls[i].query # suggest_calls[j].query
        /\ Len(suggest_calls[i].suggestions) = 8
        /\ Len(suggestion_cache[EntryKey(suggest_calls[i].user_id,
                                         suggest_calls[i].query)]) > 8

\* The queries of the history rows of caller u.
HistoryOf(u) ==
    IF u = NoUser \/ u = 0 THEN {}
    ELSE {history[k].query : k \in {j \in 1..Len(history) : history[j].user_id = u}}

\* 100 times 2 + 0.1 x popularity_count + 0.05 x max(0, 10 - length).
ClaimScore(text) ==
    200
    + 10 * (IF LowerText(text) \in DOMAIN popular_terms
            THEN popular_terms[LowerText(text)] ELSE 0)
    + 5 * (IF TextLen(text) < 10 THEN 10 - TextLen(text) ELSE 0)

\* The titles the prefix search gave to call c and the history queries of
\* its caller that start with its query, whatever the case of the letters.
ClaimCandidates(c) ==
    {t \in c.titles \cup HistoryOf(c.user_id) : StartsWithLower(t, c.query)}

\* C22: a call that missed the cache returns at most 8 different strings,
\* each a title of the lexical answer or a history query of the caller,
\* each starting with the query whatever the case, by non-increasing score
\* 2 + 0.1 x popularity + 0.05 x max(0, 10 - length); no candidate left out
\* has a higher score than one returned.
C22_RankedSuggestions ==
    \A i \in DOMAIN suggest_calls :
        LET c == suggest_calls[i]
            s == c.suggestions
            returned == {s[k] : k \in 1..Len(s)} IN
        (c.pc = "returned" /\ c.outcome = "ranked") =>
            /\ Len(s) <= 8
            /\ \A j, k \in 1..Len(s) : j # k => s[j] # s[k]
            /\ returned \subseteq ClaimCandidates(c)
            /\ \A j, k \in 1..Len(s) : j < k => ClaimScore(s[j]) >= ClaimScore(s[k])
            /\ \A t \in ClaimCandidates(c) \ returned :
                  \A k \in 1..Len(s) : ClaimScore(t) <= ClaimScore(s[k])

\* A call returned 8 of more than 8 candidates, a history query of its
\* caller among them.
C22_Witness ==
    \E i \in DOMAIN suggest_calls :
        LET c == suggest_calls[i] IN
        /\ c.outcome = "ranked"
        /\ Len(c.suggestions) = 8
        /\ Cardinality(ClaimCandidates(c)) > 8
        /\ \E k \in 1..Len(c.suggestions) : c.suggestions[k] \in HistoryOf(c.user_id)

\* C23: a call for a query of less than 2 characters, the empty one
\* included, returns no suggestion for any caller, calls neither the
\* lexical backend nor the history store and leaves the cache as it is.
C23_ShortQueryReturnsNothing ==
    [][\A i \in NewCalls :
          LET c == suggest_calls'[i] IN
          TextLen(c.query) < 2 =>
              /\ c.pc = "returned"
              /\ c.suggestions = <<>>
              /\ ~c.meili_called
              /\ ~c.history_read
              /\ suggestion_cache' = suggestion_cache]_vars

\* A signed-in user asked for a query of less than 2 characters while the
\* cache held entries.
C23_Witness ==
    /\ suggestion_cache # <<>>
    /\ \E j \in DOMAIN suggest_calls :
          /\ TextLen(suggest_calls[j].query) < 2
          /\ suggest_calls[j].user_id = 1
          /\ suggest_calls[j].pc = "returned"
          /\ suggest_calls[j].suggestions = <<>>

\* Every title the lexical backend knows.
IndexTitles == UNION TitleAnswers

\* C26: under every interleaving of calls the cache entry of caller u and
\* prefix p holds only titles and history queries of u that start with p,
\* and what a call returns holds only titles and history queries of its own
\* caller: a query of one user's history is never suggested to another
\* user or to an anonymous caller.
C26_NoHistoryAcrossUsers ==
    /\ \A u \in SuggestUsers, p \in SuggestQueries :
          EntryKey(u, p) \in DOMAIN suggestion_cache =>
              LET entry == suggestion_cache[EntryKey(u, p)] IN
              \A k \in 1..Len(entry) :
                  /\ entry[k] \in IndexTitles \cup HistoryOf(u)
                  /\ StartsWithLower(entry[k], p)
    /\ \A i \in DOMAIN suggest_calls :
          LET c == suggest_calls[i] IN
          \A k \in 1..Len(c.suggestions) :
              c.suggestions[k] \in IndexTitles \cup HistoryOf(c.user_id)

\* While a call of one user was suspended at its history read, a call of
\* another user for the same prefix ran to its end and got a query of its
\* own history.
C26_Witness ==
    \E i, j \in DOMAIN suggest_calls :
        /\ j < i
        /\ suggest_calls[j].pc = "reading"
        /\ suggest_calls[i].outcome = "ranked"
        /\ suggest_calls[i].user_id # suggest_calls[j].user_id
        /\ LowerText(suggest_calls[i].query) = LowerText(suggest_calls[j].query)
        /\ \E k \in 1..Len(suggest_calls[i].suggestions) :
              suggest_calls[i].suggestions[k] \in HistoryOf(suggest_calls[i].user_id)

\* ---------------------------------------------------------------------
\* upload_files (app/api/v1/files.py)
\* ---------------------------------------------------------------------

\* The most files one upload request carries.
MaxFiles == 2

\* The content types of the uploaded files.
ContentTypes == {"image/png", "application/pdf", "text/plain"}

\* file.content_type.startswith(('image/', 'application/pdf')).
StartsWithProcessedType(content_type) ==
    content_type \in {"image/png", "application/pdf"}

\* The call of one loop iteration that raises first, for the calls whose
\* outcome depends on the file and the services: "none" when none of
\* them raises.
UploadFaults ==
    {"none", "save_uploaded_file", "Document", "extract_image_text",
     "tag_document"}

\* files.py imports and defines no generate_embedding: the name lookup of
\* line 121 raises NameError whenever it is reached.
GenerateEmbeddingDefined == FALSE

\* The class Document is a pydantic BaseModel without a method save:
\* document.save() raises AttributeError.
DocumentHasSave == FALSE

\* The try block of lines 110-125: "skipped" for a file of another content
\* type, "finished" when every call returned, else the call that raised.
ProcessFile(content_type, fault) ==
    IF ~StartsWithProcessedType(content_type) THEN "skipped"
    ELSE IF fault = "extract_image_text" THEN "extract_image_text"
    ELSE IF fault = "tag_document" THEN "tag_document"
    ELSE IF ~GenerateEmbeddingDefined THEN "generate_embedding"
    ELSE "finished"

\* Processing raised: the except clause of lines 127-129 ran.
ProcessingRaised(processing) ==
    processing \in {"extract_image_text", "tag_document", "generate_embedding"}

\* One iteration of the loop over the files, lines 95-148.  status is the
\* field of the document object when the iteration ends, saved_status the
\* status written by document.save(), result the 'status' of the entry
\* appended to results.
UploadOne(content_type, fault) ==
    IF fault \in {"save_uploaded_file", "Document"}
    THEN [content_type |-> content_type, fault |-> fault,
          document |-> FALSE, processing |-> "none",
          after_processing |-> "", status |-> "",
          awaited_move |-> FALSE, saved |-> FALSE, saved_status |-> "",
          result |-> "failed"]
    ELSE LET processing == ProcessFile(content_type, fault)
             \* line 129: the except clause marks the document
             after_processing == IF ProcessingRaised(processing)
                                 THEN "failed" ELSE "uploaded"
             \* line 133: assigned on every path that comes this far
             status == "indexed" IN
         [content_type |-> content_type, fault |-> fault,
          document |-> TRUE, processing |-> processing,
          after_processing |-> after_processing,
          status |-> status,
          \* line 132 calls the coroutine function without await
          awaited_move |-> FALSE,
          saved |-> DocumentHasSave,
          saved_status |-> IF DocumentHasSave THEN status ELSE "",
          result |-> IF DocumentHasSave THEN "success" ELSE "failed"]

\* upload_files handles the next file of the request.
UploadFile ==
    /\ pc = "uploading"
    /\ uploads.pc = "uploading"
    /\ Len(uploads.files) < MaxFiles
    /\ \E content_type \in ContentTypes, fault \in UploadFaults :
          LET f == UploadOne(content_type, fault) IN
          uploads' = [uploads EXCEPT
                         !.files = Append(@, f),
                         !.results = Append(@, f.result)]
    /\ UNCHANGED <<SearchVars, suggestion_cache, suggest_calls, retry>>

\* upload_files returns the JSON response with the results.
UploadReturn ==
    /\ pc = "uploading"
    /\ uploads.pc = "uploading"
    /\ uploads' = [uploads EXCEPT !.pc = "returned"]
    /\ UNCHANGED <<SearchVars, suggestion_cache, suggest_calls, retry>>

\* The search service is not in use while files are uploaded.
InitUpload ==
    /\ pc = "uploading"
    /\ calls = 0
    /\ original_query = <<>>
    /\ query = <<>>
    /\ limit = 0
    /\ user_id = NoUser
    /\ use_nlp = FALSE
    /\ processed_query = <<>>
    /\ nlp_processed = FALSE
    /\ is_advanced = FALSE
    /\ meili_status = "none"
    /\ qdrant_status = "none"
    /\ history_status = "none"
    /\ meili_results = <<>>
    /\ qdrant_results = <<>>
    /\ combined = <<>>
    /\ scores = <<>>
    /\ history = <<>>
    /\ suggestion_cache = <<>>
    /\ popular_terms = <<>>
    /\ result = NoResult
    /\ trace = NoTrace
    /\ suggest_calls = <<>>
    /\ uploads = [NoUploads EXCEPT !.pc = "uploading"]
    /\ retry = NoRetry

NextUpload == UploadFile \/ UploadReturn

SpecUpload == InitUpload /\ [][NextUpload]_vars

\* C29: in upload_files a document is saved with status INDEXED only if
\* its processing (text extraction, tagging, indexing) finished without
\* error, and a file whose processing raised is saved with status FAILED
\* and does not end as INDEXED.
C29_IndexedOnlyAfterCleanProcessing ==
    \A i \in DOMAIN uploads.files :
        LET f == uploads.files[i] IN
        /\ (f.saved /\ f.saved_status = "indexed") => f.processing = "finished"
        /\ ProcessingRaised(f.processing) =>
              /\ f.saved
              /\ f.saved_status = "failed"
              /\ f.status # "indexed"

\* ---------------------------------------------------------------------
\* FileService._retry_operation (app/services/file_service.py)
\* ---------------------------------------------------------------------

\* The default of max_retries.
MAX_RETRIES == 3

\* The default of initial_delay, in tenths of a second.
RETRY_DELAY == 1

\* The largest max_retries a caller passes.
MaxRetries == 3

\* The values of initial_delay, in tenths of a second.
InitialDelays == {0, RETRY_DELAY, 3}

\* What the operation returns when it does not raise.
OperationValues == {"path1", "path2"}

\* Line 311: is there an iteration of the loop for this attempt.
InRange(attempt, max_retries) == attempt >= 0 /\ attempt < max_retries + 1

\* Line 316 with the comparison of range(max_retries + 1), wrongly.
RetryAllowedOnceMore(attempt, max_retries) == attempt <= max_retries

\* Line 316: a failed attempt is followed by another one.
RetryAllowed(attempt, max_retries) == attempt < max_retries

\* Line 318: the delay of the next sleep.
Backoff(delay) == delay * 2

\* The call: lines 308-311, and the loop entered or skipped.
RetryCall ==
    /\ pc = "retrying"
    /\ retry.pc = "idle"
    /\ \E max_retries \in 0..MaxRetries, initial_delay \in InitialDelays :
          retry' = [retry EXCEPT
                       !.pc = IF InRange(0, max_retries)
                              THEN "attempting" ELSE "returned",
                       !.max_retries = max_retries,
                       !.initial_delay = initial_delay,
                       !.attempt = 0,
                       !.delay = initial_delay,
                       !.result = IF InRange(0, max_retries) THEN "" ELSE "None"]
    /\ UNCHANGED <<SearchVars, suggestion_cache, suggest_calls, uploads>>

\* Lines 312-322: one invocation of the operation; its value is returned,
\* or it raised and the loop goes on to sleep or raises FileStorageError.
RetryAttempt ==
    /\ pc = "retrying"
    /\ retry.pc = "attempting"
    /\ \/ \E value \in OperationValues :
             retry' = [retry EXCEPT
                          !.pc = "returned",
                          !.invocations = Append(@, value),
                          !.result = value]
       \/ retry' = [retry EXCEPT
                       !.pc = IF RetryAllowed(retry.attempt, retry.max_retries)
                              THEN "sleeping" ELSE "raised",
                       !.invocations = Append(@, "error"),
                       !.result = IF RetryAllowed(retry.attempt, retry.max_retries)
                                  THEN "" ELSE "FileStorageError"]
    /\ UNCHANGED <<SearchVars, suggestion_cache, suggest_calls, uploads>>

\* Lines 317-319: time.sleep(delay), the delay doubled, and the next
\* iteration of the loop, or its end and the implicit return of None.
RetrySleep ==
    /\ pc = "retrying"
    /\ retry.pc = "sleeping"
    /\ retry' = [retry EXCEPT
                    !.pc = IF InRange(retry.attempt + 1, retry.max_retries)
                           THEN "attempting" ELSE "returned",
                    !.sleeps = Append(@, retry.delay),
                    !.delay = Backoff(retry.delay),
                    !.attempt = @ + 1,
                    !.result = IF InRange(retry.attempt + 1, retry.max_retries)
                               THEN "" ELSE "None"]
    /\ UNCHANGED <<SearchVars, suggestion_cache, suggest_calls, uploads>>

\* The service is about to run one file operation.
InitRetry ==
    /\ pc = "retrying"
    /\ calls = 0
    /\ original_query = <<>>
    /\ query = <<>>
    /\ limit = 0
    /\ user_id = NoUser
    /\ use_nlp = FALSE
    /\ processed_query = <<>>
    /\ nlp_processed = FALSE
    /\ is_advanced = FALSE
    /\ meili_status = "none"
    /\ qdrant_status = "none"
    /\ history_status = "none"
    /\ meili_results = <<>>
    /\ qdrant_results = <<>>
    /\ combined = <<>>
    /\ scores = <<>>
    /\ history = <<>>
    /\ suggestion_cache = <<>>
    /\ popular_terms = <<>>
    /\ result = NoResult
    /\ trace = NoTrace
    /\ suggest_calls = <<>>
    /\ uploads = NoUploads
    /\ retry = NoRetry

NextRetry == RetryCall \/ RetryAttempt \/ RetrySleep

\* The interpreter goes on running the call: no step of it waits for
\* anything but the operation and time.sleep, which return.
SpecRetry == InitRetry /\ [][NextRetry]_vars /\ WF_vars(NextRetry)

\* d doubled k times.
RECURSIVE DoubledTimes(_, _)
DoubledTimes(d, k) == IF k = 0 THEN d ELSE 2 * DoubledTimes(d, k - 1)

\* The invocations that raised.
FailedInvocations == {i \in DOMAIN retry.invocations : retry.invocations[i] = "error"}

RetryDone == retry.pc \in {"returned", "raised"}

\* What holds of _retry_operation in every state of a call.
RetrySafe ==
    \* at most max_retries + 1 invocations
    /\ Len(retry.invocations) <= retry.max_retries + 1
    \* an invocation that succeeded is the last one, and its value is returned
    /\ \A i \in DOMAIN retry.invocations :
          retry.invocations[i] # "error" =>
              /\ i = Len(retry.invocations)
              /\ retry.pc = "returned"
              /\ retry.result = retry.invocations[i]
    /\ retry.pc = "returned" =>
          /\ retry.invocations # <<>>
          /\ retry.invocations[Len(retry.invocations)] \in OperationValues
          /\ retry.result = retry.invocations[Len(retry.invocations)]
    \* FileStorageError exactly when all max_retries + 1 invocations failed
    /\ (retry.pc = "raised" /\ retry.result = "FileStorageError")
          <=> (/\ retry.pc # "idle"
               /\ Cardinality(FailedInvocations) = retry.max_retries + 1)
    \* the sleep after the k-th failed attempt lasts initial_delay * 2^(k-1)
    /\ \A k \in DOMAIN retry.sleeps :
          retry.sleeps[k] = DoubledTimes(retry.initial_delay, k - 1)
    /\ retry.pc \in {"attempting", "returned"} =>
          Len(retry.sleeps) = Cardinality(FailedInvocations)
    /\ retry.pc = "raised" =>
          Len(retry.sleeps) = retry.max_retries
    /\ retry.pc # "idle" =>
          retry.delay = DoubledTimes(retry.initial_delay, Len(retry.sleeps))

\* C30: _retry_operation always terminates; it invokes the operation at
\* most max_retries + 1 times, returns the result of the first successful
\* invocation without invoking it again, raises FileStorageError exactly
\* when all max_retries + 1 invocations fail, and doubles the delay after
\* each failed attempt that is followed by another one.
C30_RetryTerminates ==
    /\ []RetrySafe
    /\ (retry.pc = "attempting") ~> RetryDone

\* The default call failed four times, slept 0.1, 0.2 and 0.4 seconds
\* and raised FileStorageError.
C30_Witness ==
    /\ retry.pc = "raised"
    /\ retry.max_retries = MAX_RETRIES
    /\ retry.initial_delay = RETRY_DELAY
    /\ retry.invocations = <<"error", "error", "error", "error">>
    /\ retry.sleeps = <<1, 2, 4>>
    /\ retry.result = "FileStorageError"

====
